---- MODULE Spec2Model ----
(***************************************************************************)
(* Model of the search backend of searchneu: the module-level build        *)
(* singleton (searchPromise / getSearch) and the GET /search handler of    *)
(* src/backend/server.js.  The search engine itself (../common/search) and *)
(* macros.isNumeric (./macros) are not among the available sources; they   *)
(* are modelled from the written specification.                            *)
(***************************************************************************)
EXTENDS Integers, Sequences, FiniteSets, TLC

\* ------------------------------------------------------------------ bounds
NumReqs == 2
MaxBuilds == 2
MaxTime == 42
MaxCalls == 3
MaxLate == 1

\* --------------------------------------------------------- program constants
MaxQueryLen == 500
NumFiles == 4
DefaultMinIndex == 0
DefaultMaxIndex == 10
TooltipDelay == 20

Reqs == 1..NumReqs
Files == 1..NumFiles
null == 0

\* Response bodies of the /search handler.
NeedQueryParam == "Need query param."
MustBeNumbers == "Max and Min index must be numbers."
CouldNotStart == "Could not start backend. No data found."

\* ------------------------------------------------ request parameter values
\* A query-string parameter is a sequence of characters; a parameter that is
\* not present is the JavaScript value undefined, which every string
\* conversion turns into the text "undefined" (no digit in it).
Undefined == <<"undefined">>
Digits == {"0", "1", "2"}

Truthy(s) == s # Undefined /\ s # <<>>

DigitVal(c) == CASE c = "0" -> 0 [] c = "1" -> 1 [] c = "2" -> 2

RECURSIVE DigitsPrefix(_)
DigitsPrefix(s) ==
  IF s = <<>> \/ Head(s) \notin Digits THEN <<>>
  ELSE <<Head(s)>> \o DigitsPrefix(Tail(s))

RECURSIVE DecVal(_)
DecVal(d) ==
  IF d = <<>> THEN 0
  ELSE 10 * DecVal(SubSeq(d, 1, Len(d) - 1)) + DigitVal(d[Len(d)])

NaN == "NaN"

\* JavaScript parseInt: optional sign, then the longest prefix of digits;
\* whatever follows the digits is ignored; NaN when there is no digit.
parseInt(s) ==
  LET neg == s # <<>> /\ Head(s) = "-"
      body == IF neg THEN Tail(s) ELSE s
      d == DigitsPrefix(body)
  IN IF d = <<>> THEN NaN ELSE IF neg THEN 0 - DecVal(d) ELSE DecVal(d)

\* macros.isNumeric: the whole text is a number (optional sign, digits).
isNumeric(n) ==
  LET neg == n # <<>> /\ Head(n) = "-"
      body == IF neg THEN Tail(n) ELSE n
  IN body # <<>> /\ \A i \in 1..Len(body) : body[i] \in Digits

\* req.query.query: its JavaScript type, its length and its words.
QUndefined == [type |-> "undefined", length |-> 0, words |-> <<>>]
QEmpty == [type |-> "string", length |-> 0, words |-> <<>>]
QArray == [type |-> "object", length |-> 2, words |-> <<"CS", "Doe">>]
QTooLong == [type |-> "string", length |-> MaxQueryLen + 1, words |-> <<"CS">>]
QLongest == [type |-> "string", length |-> MaxQueryLen, words |-> <<"CS", "a">>]
QDoe == [type |-> "string", length |-> 3, words |-> <<"Doe">>]
QProgramming == [type |-> "string", length |-> 11, words |-> <<"programming">>]
QNoMatch == [type |-> "string", length |-> 1, words |-> <<"a">>]
QCsDoe == [type |-> "string", length |-> 6, words |-> <<"CS", "Doe">>]

Queries == {QUndefined, QEmpty, QArray, QTooLong, QLongest, QDoe, QProgramming,
            QNoMatch, QCsDoe}

IndexParams == {Undefined, <<>>, <<"0">>, <<"1">>, <<"2">>, <<"0", "2">>,
                <<"-", "1">>, <<"1", "a">>}

\* !req.query.query || typeof req.query.query !== 'string' || length > 500
QueryRejected(q) ==
  \/ q.type = "undefined"
  \/ (q.type = "string" /\ q.length = 0)
  \/ q.type # "string"
  \/ q.length > MaxQueryLen

\* As IndexRejected, but only minIndex is looked at.
IndexRejectedMinOnly(mn, mx) == ~isNumeric(mn)

\* !macros.isNumeric(req.query.minIndex) || !macros.isNumeric(req.query.maxIndex)
IndexRejected(mn, mx) == ~isNumeric(mn) \/ ~isNumeric(mx)

\* let minIndex = 0; if (req.query.minIndex) minIndex = parseInt(...)
ParsedMinIndex(mn) == IF Truthy(mn) THEN parseInt(mn) ELSE DefaultMinIndex

\* As ParsedMaxIndex, but the parameter is never parsed.
ParsedMaxIndexUnparsed(mx) == DefaultMaxIndex

\* let maxIndex = 10; if (req.query.maxIndex) maxIndex = parseInt(...)
ParsedMaxIndex(mx) == IF Truthy(mx) THEN parseInt(mx) ELSE DefaultMaxIndex

\* ------------------------------------------------------- the search engine
\* Tokenization: lowercase, drop tokens shorter than 2 characters.
Lower(w) == CASE w = "CS" -> "cs" [] w = "Doe" -> "doe" [] OTHER -> w
WordLen(w) == CASE w = "a" -> 1 [] w \in {"CS", "cs"} -> 2
                [] w \in {"Doe", "doe"} -> 3 [] OTHER -> 4
MinTokenLen == 2

tokenize(words) ==
  {Lower(words[i]) : i \in {j \in 1..Len(words) : WordLen(words[j]) >= MinTokenLen}}

\* The documents the four dumps can carry: dump i carries document i.
FieldNames == {"title", "subject", "name", "department"}
NoFields == [f \in FieldNames |-> <<>>]
Document(id) ==
  CASE id = 1 -> [id |-> 1, entityType |-> "Course",
                  fields |-> [NoFields EXCEPT !["title"] = <<"intro", "programming">>,
                                              !["subject"] = <<"cs">>]]
    [] id = 2 -> [id |-> 2, entityType |-> "Section",
                  fields |-> [NoFields EXCEPT !["title"] = <<"doe", "seminar">>,
                                              !["subject"] = <<"cs">>]]
    [] id = 3 -> [id |-> 3, entityType |-> "Employee",
                  fields |-> [NoFields EXCEPT !["name"] = <<"jane", "doe">>,
                                              !["department"] = <<"cs">>]]
    [] id = 4 -> [id |-> 4, entityType |-> "Employee",
                  fields |-> [NoFields EXCEPT !["name"] = <<"john", "doe">>,
                                              !["department"] = <<"cs">>]]

FieldWeight(f) == CASE f = "title" -> 3 [] f = "name" -> 3
                    [] f = "subject" -> 2 [] f = "department" -> 1
IdfFloor == 1

\* Entity-type precedence: Course/Section before Employee.
TypeRank(t) == IF t = "Employee" THEN 1 ELSE 0

TermFrequency(id, f, t) ==
  LET text == Document(id).fields[f]
  IN Cardinality({i \in 1..Len(text) : text[i] = t})

Contains(id, t) == \E f \in FieldNames : TermFrequency(id, f, t) > 0

RECURSIVE Log2(_)
Log2(n) == IF n <= 1 THEN 0 ELSE 1 + Log2(n \div 2)

\* idf(term) = log(totalDocuments / documentsContainingTerm), floored.
Idf(docs, t) ==
  LET df == Cardinality({d \in docs : Contains(d, t)})
      raw == IF df = 0 THEN 0 ELSE Log2(Cardinality(docs) \div df)
  IN IF raw < IdfFloor THEN IdfFloor ELSE raw

\* Sum over the (token, field) pairs of termFrequency * fieldWeight * idf.
RECURSIVE SumPairs(_, _, _)
SumPairs(docs, id, pairs) ==
  IF pairs = {} THEN 0
  ELSE LET p == CHOOSE x \in pairs : TRUE
       IN TermFrequency(id, p[2], p[1]) * FieldWeight(p[2]) * Idf(docs, p[1])
          + SumPairs(docs, id, pairs \ {p})

Score(docs, id, tokens) == SumPairs(docs, id, tokens \X FieldNames)

\* As Before, but the lower score ranks first.
BeforeAscending(docs, tokens, d, e) ==
  LET sd == Score(docs, d, tokens)
      se == Score(docs, e, tokens)
      rd == TypeRank(Document(d).entityType)
      re == TypeRank(Document(e).entityType)
  IN \/ sd < se
     \/ sd = se /\ rd < re
     \/ sd = se /\ rd = re /\ d < e

\* d ranks strictly before e.
Before(docs, tokens, d, e) ==
  LET sd == Score(docs, d, tokens)
      se == Score(docs, e, tokens)
      rd == TypeRank(Document(d).entityType)
      re == TypeRank(Document(e).entityType)
  IN \/ sd > se
     \/ sd = se /\ rd < re
     \/ sd = se /\ rd = re /\ d < e

RECURSIVE RankSet(_, _, _)
RankSet(docs, tokens, S) ==
  IF S = {} THEN <<>>
  ELSE LET best == CHOOSE d \in S : \A e \in S \ {d} : Before(docs, tokens, d, e)
       IN <<[id |-> best, entityType |-> Document(best).entityType,
             score |-> Score(docs, best, tokens)]>>
          \o RankSet(docs, tokens, S \ {best})

\* The full ranked list of the documents matching at least one query token.
Ranked(docs, tokens) ==
  RankSet(docs, tokens, {d \in docs : \E t \in tokens : Contains(d, t)})

\* The slice [a, b) of a list: the positions of it that exist.
Slice(list, a, b) ==
  LET lo == IF a < 0 THEN 0 ELSE a
      hi == IF b > Len(list) THEN Len(list) ELSE b
  IN IF lo >= hi THEN <<>> ELSE SubSeq(list, lo + 1, hi)

InvalidRange(a, b) == a > b

\* index.search(query, minIndex, maxIndex) on an index holding docs; defined
\* when the range is not rejected.
search(docs, q, a, b) == Slice(Ranked(docs, tokenize(q.words)), a, b)

\* search.create(termDump, searchIndex, employeeMap, employeesSearchIndex):
\* the documents of the dumps that carry data.
create(contents) == {i \in Files : contents[i] = "data"}

\* JSON.stringify of a result list, as its sequence of lexical tokens.
RECURSIVE StringifyItems(_)
StringifyItems(list) ==
  IF list = <<>> THEN <<>>
  ELSE <<"{", "id", ToString(Head(list).id), "type", Head(list).entityType,
         "score", ToString(Head(list).score), "}">>
       \o (IF Len(list) > 1 THEN <<",">> ELSE <<>>)
       \o StringifyItems(Tail(list))

JSONstringify(list) == <<"[">> \o StringifyItems(list) \o <<"]">>

\* ------------------------------------------------------------------- state
VARIABLES
  pc,                  \* position of the module's top-level code
  searchPromise,       \* the module-level build singleton: null or a promise
  promises,            \* the build promises created so far, by identity
  readFileCalls,       \* number of fs.readFile calls issued
  createCalls,         \* number of search.create calls made
  startupPromise,      \* the promise the startup getSearch() call returned
  unhandledRejection,  \* a promise was rejected with no handler attached
  reqs,                \* the /search requests
  macros,              \* the process configuration: macros.PROD, macros.DEV
  now,                 \* browser time, in milliseconds
  tooltipTimer,        \* frontend macros.js: null or the id of the last timer
  timers,              \* the browser's pending timers
  timerIds,            \* number of timers created so far
  lastCall,            \* time of the latest debounceTooltipRebuild call
  rebuilds,            \* number of ReactTooltip.rebuild calls
  sinceCall            \* of them, those since the latest call

frontend == <<now, tooltipTimer, timers, timerIds, lastCall, rebuilds, sinceCall>>

vars == <<pc, searchPromise, promises, readFileCalls, createCalls,
          startupPromise, unhandledRejection, reqs, macros, frontend>>

\* ------------------------------------------------------- response headers
HeaderNames == {"X-Frame-Options", "Content-Security-Policy", "X-XSS-Protection",
                "X-Content-Type-Options", "Cache-Control"}
\* A header that is not set has the empty value.
NoHeaders == [h \in HeaderNames |-> ""]

CacheDay == "public, max-age=86400"
CacheRevalidate == "no-cache"
CacheTwoMonths == "public, max-age=5256000"
CacheNever == "no-cache, no-store"

\* The process configuration: the two flags the server reads, macros.PROD
\* and macros.DEV, in every combination.
Production == [PROD |-> TRUE, DEV |-> FALSE]
Development == [PROD |-> FALSE, DEV |-> TRUE]
Modes == [PROD : BOOLEAN, DEV : BOOLEAN]

\* A connection: req.protocol, the x-forwarded-proto header, the Host header.
NoHeader == "undefined"
Connections ==
  [protocol : {"http", "https"}, forwardedProto : {NoHeader, "http", "https"},
   host : {"searchneu.com"}]
DirectHttps == [protocol |-> "https", forwardedProto |-> NoHeader,
                host |-> "searchneu.com"]
OriginalUrl == "/search"

\* As HeaderMiddleware, but X-Content-Type-Options is left out.
HeaderMiddlewareWithoutNosniff(headers) ==
  [headers EXCEPT !["X-Frame-Options"] = "DENY",
                  !["Content-Security-Policy"] = "frame-ancestors 'none'",
                  !["X-XSS-Protection"] = "1; mode=block",
                  !["Cache-Control"] = IF macros.PROD THEN CacheDay
                                       ELSE CacheRevalidate]

\* The first middleware, lines 18-38.
HeaderMiddleware(headers) ==
  [headers EXCEPT !["X-Frame-Options"] = "DENY",
                  !["Content-Security-Policy"] = "frame-ancestors 'none'",
                  !["X-XSS-Protection"] = "1; mode=block",
                  !["X-Content-Type-Options"] = "nosniff",
                  !["Cache-Control"] = IF macros.PROD THEN CacheDay
                                       ELSE CacheRevalidate]

\* As PassedOn, but the x-forwarded-proto header is not looked at.
PassedOnIgnoringProxy(conn) ==
  \/ conn.protocol = "https"
  \/ macros.DEV

\* The second middleware, lines 42-69: the request is passed on.
PassedOn(conn) ==
  \/ conn.protocol = "https"
  \/ (conn.forwardedProto # NoHeader /\ conn.forwardedProto = "https")
  \/ macros.DEV

\* 'https://' + req.get('host') + req.originalUrl
RedirectTarget(conn) == <<"https://", conn.host, OriginalUrl>>

NoResponse == [kind |-> "none", text |-> "", json |-> <<>>]
RedirectResponse == [kind |-> "redirect", text |-> "", json |-> <<>>]
TextResponse(t) == [kind |-> "text", text |-> t, json |-> <<>>]
JsonResponse(j) == [kind |-> "json", text |-> "", json |-> j]
\* What express answers when the handler's promise rejects.
ErrorResponse == [kind |-> "error", text |-> "Internal Server Error", json |-> <<>>]

IdleRequest ==
  [phase |-> "idle", query |-> QUndefined, minIndexParam |-> Undefined,
   maxIndexParam |-> Undefined, minIndex |-> DefaultMinIndex,
   maxIndex |-> DefaultMaxIndex, awaits |-> null, getSearchCalls |-> 0,
   searchCalls |-> 0, results |-> <<>>, sends |-> 0, thrown |-> "none",
   response |-> NoResponse, conn |-> DirectHttps, headers |-> NoHeaders,
   nextCalls |-> 0, location |-> <<>>, responses |-> 0]

NewBuild ==
  [reads |-> [i \in Files |-> "pending"], state |-> "pending", value |-> "none"]

\* No debounceTooltipRebuild call has been made yet.
NoCall == 0 - 1

Init ==
  /\ pc = "start"
  /\ searchPromise = null
  /\ promises = <<>>
  /\ readFileCalls = 0
  /\ createCalls = 0
  /\ startupPromise = null
  /\ unhandledRejection = FALSE
  /\ reqs = [r \in Reqs |-> IdleRequest]
  /\ macros = Production
  /\ now = 0
  /\ tooltipTimer = null
  /\ timers = {}
  /\ timerIds = 0
  /\ lastCall = NoCall
  /\ rebuilds = 0
  /\ sinceCall = 0

\* The same, for any process configuration.
InitHttp ==
  /\ pc = "start"
  /\ searchPromise = null
  /\ promises = <<>>
  /\ readFileCalls = 0
  /\ createCalls = 0
  /\ startupPromise = null
  /\ unhandledRejection = FALSE
  /\ reqs = [r \in Reqs |-> IdleRequest]
  /\ macros \in Modes
  /\ now = 0
  /\ tooltipTimer = null
  /\ timers = {}
  /\ timerIds = 0
  /\ lastCall = NoCall
  /\ rebuilds = 0
  /\ sinceCall = 0

\* ---------------------------------------------------------------- getSearch
\* As getSearch, but without the check of the cached promise.
getSearchAlwaysBuilds ==
  /\ Len(promises) < MaxBuilds
  /\ promises' = Append(promises, NewBuild)
  /\ readFileCalls' = readFileCalls + NumFiles
  /\ searchPromise' = Len(promises) + 1

\* As getSearch, but a rejected build is forgotten and started again.
getSearchRetriesAfterFailure ==
  IF searchPromise # null /\ promises[searchPromise].state # "rejected"
    THEN UNCHANGED <<searchPromise, promises, readFileCalls>>
    ELSE /\ Len(promises) < MaxBuilds
         /\ promises' = Append(promises, NewBuild)
         /\ readFileCalls' = readFileCalls + NumFiles
         /\ searchPromise' = Len(promises) + 1

\* As getSearch, but only a build still in flight is reused.
getSearchRebuildsOnceSettled ==
  IF searchPromise # null /\ promises[searchPromise].state = "pending"
    THEN UNCHANGED <<searchPromise, promises, readFileCalls>>
    ELSE /\ Len(promises) < MaxBuilds
         /\ promises' = Append(promises, NewBuild)
         /\ readFileCalls' = readFileCalls + NumFiles
         /\ searchPromise' = Len(promises) + 1

\* getSearch() has no await in it: it runs to completion.  It returns
\* searchPromise as it is after the call.  Promise.all does not throw
\* synchronously, so the catch branch is never taken.
getSearch ==
  IF searchPromise # null
    THEN UNCHANGED <<searchPromise, promises, readFileCalls>>
    ELSE /\ Len(promises) < MaxBuilds
         /\ promises' = Append(promises, NewBuild)
         /\ readFileCalls' = readFileCalls + NumFiles
         /\ searchPromise' = Len(promises) + 1

\* As Startup, but without the getSearch() call of line 112.
StartupWithoutBuild ==
  /\ pc = "start"
  /\ pc' = "listening"
  /\ UNCHANGED <<searchPromise, promises, readFileCalls, startupPromise,
                 createCalls, unhandledRejection, reqs, macros, frontend>>

\* Line 112: the index is loaded as soon as the app starts; the returned
\* promise is dropped.
Startup ==
  /\ pc = "start"
  /\ getSearch
  /\ startupPromise' = searchPromise'
  /\ pc' = "listening"
  /\ UNCHANGED <<createCalls, unhandledRejection, reqs, macros, frontend>>

\* ---------------------------------------------------------------- the build
\* The startup call's promise has no rejection handler.
RejectionUnhandled(p) == unhandledRejection \/ startupPromise = p

\* One of the four readFile(...).then(JSON.parse) promises is fulfilled.
ReadResolve(p, i, content) ==
  /\ p \in 1..Len(promises)
  /\ promises[p].reads[i] = "pending"
  /\ promises' = [promises EXCEPT ![p].reads[i] = content]
  /\ UNCHANGED <<pc, searchPromise, readFileCalls, createCalls, startupPromise,
                 unhandledRejection, reqs, macros, frontend>>

\* As ReadReject, but the rejection of one input does not reject the build.
ReadRejectTolerated(p, i) ==
  /\ p \in 1..Len(promises)
  /\ promises[p].reads[i] = "pending"
  /\ promises' = [promises EXCEPT ![p].reads[i] = "rejected"]
  /\ UNCHANGED <<pc, searchPromise, readFileCalls, createCalls, startupPromise,
                 unhandledRejection, reqs, macros, frontend>>

\* One of them is rejected: the file is absent, or JSON.parse throws on its
\* body.  Promise.all is rejected by the first rejection.
ReadReject(p, i) ==
  /\ p \in 1..Len(promises)
  /\ promises[p].reads[i] = "pending"
  /\ promises' = [promises EXCEPT ![p].reads[i] = "rejected",
                                  ![p].state = "rejected"]
  /\ unhandledRejection' = RejectionUnhandled(p)
  /\ UNCHANGED <<pc, searchPromise, readFileCalls, createCalls, startupPromise,
                 reqs, macros, frontend>>

\* What search.create can do with the four parsed payloads: build an Index,
\* or, when a payload carries data it cannot use, return a failure signal or
\* throw.  Empty payloads always give a (zero-document) Index.
CreateOutcomes(contents) ==
  IF \A i \in Files : contents[i] = "empty" THEN {"Index"}
  ELSE {"Index", "null", "throw"}

\* Promise.all is fulfilled and its then-callback calls search.create.
Create(p, outcome) ==
  /\ p \in 1..Len(promises)
  /\ promises[p].state = "pending"
  /\ \A i \in Files : promises[p].reads[i] \in {"empty", "data"}
  /\ outcome \in CreateOutcomes(promises[p].reads)
  /\ createCalls' = createCalls + 1
  /\ promises' = [promises EXCEPT
                    ![p].state = IF outcome = "throw" THEN "rejected" ELSE "fulfilled",
                    ![p].value = IF outcome = "throw" THEN "none" ELSE outcome]
  /\ unhandledRejection' = IF outcome = "throw" THEN RejectionUnhandled(p)
                           ELSE unhandledRejection
  /\ UNCHANGED <<pc, searchPromise, readFileCalls, startupPromise, reqs,
                 macros, frontend>>

\* ------------------------------------------------------- the middlewares
\* A request arrives and runs through the two middlewares: the headers are
\* set, then the request is passed on to the routes or redirected to https.
Route(r, conn) ==
  /\ pc = "listening"
  /\ reqs[r].phase = "idle"
  /\ LET arrived == [reqs[r] EXCEPT !.conn = conn,
                                    !.headers = HeaderMiddleware(@)]
     IN reqs' = [reqs EXCEPT ![r] =
          IF PassedOn(conn)
            THEN [arrived EXCEPT !.phase = "routed", !.nextCalls = @ + 1]
            ELSE [arrived EXCEPT !.phase = "redirected",
                                 !.headers["Cache-Control"] = CacheTwoMonths,
                                 !.location = RedirectTarget(conn),
                                 !.responses = @ + 1,
                                 !.response = RedirectResponse]]
  /\ UNCHANGED <<pc, searchPromise, promises, readFileCalls, createCalls,
                 startupPromise, unhandledRejection, macros, frontend>>

\* ------------------------------------------------------ app.get('/search')
\* The handler up to its await: validation, parsing, getSearch().
Receive(r, q, mn, mx) ==
  /\ pc = "listening"
  /\ reqs[r].phase = "routed"
  /\ LET arrived == [reqs[r] EXCEPT !.query = q, !.minIndexParam = mn,
                                    !.maxIndexParam = mx]
     IN IF QueryRejected(q)
          THEN /\ reqs' = [reqs EXCEPT ![r] =
                             [arrived EXCEPT !.phase = "done", !.sends = @ + 1,
                                             !.responses = @ + 1,
                                             !.response = TextResponse(NeedQueryParam)]]
               /\ UNCHANGED <<searchPromise, promises, readFileCalls>>
          ELSE IF IndexRejected(mn, mx)
          THEN /\ reqs' = [reqs EXCEPT ![r] =
                             [arrived EXCEPT !.phase = "done", !.sends = @ + 1,
                                             !.responses = @ + 1,
                                             !.response = TextResponse(MustBeNumbers)]]
               /\ UNCHANGED <<searchPromise, promises, readFileCalls>>
          ELSE /\ getSearch
               /\ reqs' = [reqs EXCEPT ![r] =
                             [arrived EXCEPT
                                !.phase = "awaiting",
                                !.minIndex = ParsedMinIndex(mn),
                                !.maxIndex = ParsedMaxIndex(mx),
                                !.getSearchCalls = @ + 1,
                                !.awaits = searchPromise']]
  /\ UNCHANGED <<pc, createCalls, startupPromise, unhandledRejection, macros,
                 frontend>>

\* As OnHandlerError, but the handler is not wrapped: the rejection goes
\* nowhere and the request is never answered.
OnHandlerErrorUnwrapped(req, error) ==
  [req EXCEPT !.phase = "hung", !.thrown = error]

\* The handler's promise is rejected: express-async-wrap passes the error to
\* next(err) and express answers with its error response.  res.send is not
\* called.
OnHandlerError(req, error) ==
  [req EXCEPT !.phase = "done", !.thrown = error, !.responses = @ + 1,
              !.response = ErrorResponse]

\* As IndexMissing, but an index without documents counts as missing.
IndexMissingOrEmpty(p) == p.value = "null" \/ create(p.reads) = {}

\* if (!index)
IndexMissing(p) == p.value = "null"

\* The handler after its await, once the awaited promise has settled.  A
\* rejection, or an exception of index.search, rejects the handler's promise.
Resume(r) ==
  /\ reqs[r].phase = "awaiting"
  /\ LET req == reqs[r]
         p == promises[req.awaits]
     IN /\ p.state # "pending"
        /\ reqs' = [reqs EXCEPT ![r] =
             IF p.state = "rejected"
               THEN OnHandlerError(req, "BuildError")
             ELSE IF IndexMissing(p)
               THEN [req EXCEPT !.phase = "done", !.sends = @ + 1,
                                !.responses = @ + 1,
                                !.headers["Cache-Control"] = CacheNever,
                                !.response = TextResponse(CouldNotStart)]
             ELSE IF InvalidRange(req.minIndex, req.maxIndex)
               THEN OnHandlerError([req EXCEPT !.searchCalls = @ + 1],
                                   "InvalidRange")
             ELSE LET results == search(create(p.reads), req.query,
                                        req.minIndex, req.maxIndex)
                  IN [req EXCEPT !.phase = "done", !.sends = @ + 1,
                                 !.responses = @ + 1,
                                 !.searchCalls = @ + 1,
                                 !.results = results,
                                 !.response = JsonResponse(JSONstringify(results))]]
  /\ UNCHANGED <<pc, searchPromise, promises, readFileCalls, createCalls,
                 startupPromise, unhandledRejection, macros, frontend>>

\* ------------------------------------- frontend: debounceTooltipRebuild
backend == <<pc, searchPromise, promises, readFileCalls, createCalls,
             startupPromise, unhandledRejection, reqs, macros>>

\* As clearTimeout, but nothing is cancelled.
clearTimeoutForgotten(id) == timers

\* clearTimeout(id): the timer with that id, if it is still pending, is
\* cancelled; null and the id of a timer that has fired cancel nothing.
clearTimeout(id) == {t \in timers : t.id # id}

\* Macros.debounceTooltipRebuild(), lines 17-20.
debounceTooltipRebuild ==
  /\ timerIds < MaxCalls
  /\ timers' = clearTimeout(tooltipTimer)
                  \cup {[id |-> timerIds + 1, armedAt |-> now]}
  /\ timerIds' = timerIds + 1
  /\ tooltipTimer' = timerIds + 1
  /\ lastCall' = now
  /\ sinceCall' = 0
  /\ UNCHANGED <<now, rebuilds, backend>>

\* A pending timer fires, no earlier than its delay after it was armed, and
\* calls ReactTooltip.rebuild.  tooltipTimer keeps the id.
TimerFires(t) ==
  /\ t \in timers
  /\ now >= t.armedAt + TooltipDelay
  /\ timers' = timers \ {t}
  /\ rebuilds' = rebuilds + 1
  /\ sinceCall' = sinceCall + 1
  /\ UNCHANGED <<now, tooltipTimer, timerIds, lastCall, backend>>

\* A millisecond passes; a timer is at most MaxLate late.
Tick ==
  /\ now < MaxTime
  /\ \A t \in timers : now < t.armedAt + TooltipDelay + MaxLate
  /\ now' = now + 1
  /\ UNCHANGED <<tooltipTimer, timers, timerIds, lastCall, rebuilds, sinceCall,
                 backend>>

\* ---------------------------------------------------------- specifications
\* The requests used to explore concurrency: one of each kind.
ConcurrentInputs ==
  { <<QDoe, <<"0">>, <<"2">>>>,
    <<QCsDoe, <<"0">>, <<"1", "0">>>>,
    <<QLongest, <<"2">>, <<"1">>>>,
    <<QUndefined, <<"0">>, <<"1">>>>,
    <<QProgramming, <<"1", "a">>, <<"1">>>> }

Build ==
  \E p \in 1..MaxBuilds :
    \/ \E i \in Files, content \in {"empty", "data"} : ReadResolve(p, i, content)
    \/ \E i \in Files : ReadReject(p, i)
    \/ \E outcome \in {"Index", "null", "throw"} : Create(p, outcome)

Next ==
  \/ Startup
  \/ Build
  \/ \E r \in Reqs : Route(r, DirectHttps)
  \/ \E r \in Reqs, in \in ConcurrentInputs : Receive(r, in[1], in[2], in[3])
  \/ \E r \in Reqs : Resume(r)

Spec == Init /\ [][Next]_vars

\* One request at a time, over every combination of parameter values.
NextParams ==
  \/ Startup
  \/ Build
  \/ Route(1, DirectHttps)
  \/ \E q \in Queries, mn \in IndexParams, mx \in IndexParams : Receive(1, q, mn, mx)
  \/ Resume(1)

SpecParams == Init /\ [][NextParams]_vars

\* One request, over every connection and every process configuration.
NextHttp ==
  \/ Startup
  \/ Build
  \/ \E conn \in Connections : Route(1, conn)
  \/ \E in \in ConcurrentInputs : Receive(1, in[1], in[2], in[3])
  \/ Resume(1)

SpecHttp == InitHttp /\ [][NextHttp]_vars

\* The event loop runs every continuation that is ready, and the file
\* system answers every read.
\* Resume(r) always changes reqs[r], so ResumeEnabled(r) is
\* ENABLED <<Resume(r)>>_vars, and the last conjunct is WF_vars(Resume(r))
\* written out.
ResumeEnabled(r) ==
  /\ reqs[r].phase = "awaiting"
  /\ promises[reqs[r].awaits].state # "pending"

SpecLive ==
  /\ Init /\ [][Next]_vars
  /\ WF_vars(Build)
  /\ \A r \in Reqs : \/ []<>(~ResumeEnabled(r))
                      \/ []<><<Resume(r)>>_vars

\* The page: calls of debounceTooltipRebuild, timers, time.
NextTooltip ==
  \/ debounceTooltipRebuild
  \/ \E t \in timers : TimerFires(t)
  \/ Tick

SpecTooltip == Init /\ [][NextTooltip]_vars

\* ------------------------------------------------------------ observations
\* The state of the index lifecycle, read off the build singleton.
Lifecycle ==
  IF searchPromise = null THEN "Unbuilt"
  ELSE LET p == promises[searchPromise]
       IN IF p.state = "pending" THEN "Building"
          ELSE IF p.state = "fulfilled" /\ p.value = "Index" THEN "Ready"
          ELSE "Failed"

Loaded(p, i) == promises[p].reads[i] \in {"empty", "data"}
AllSettled(p) == \A i \in Files : promises[p].reads[i] # "pending"

\* ------------------------------------------------------------------ claims

\* C1: however many getSearch() calls are made and however they interleave
\* with the build, the build runs exactly once (four file reads, at most one
\* search.create), and every caller holds the same promise and observes its
\* one outcome: the same Index, or the same failure.
C1_SingleBuild ==
  /\ Len(promises) = (IF pc = "start" THEN 0 ELSE 1)
  /\ readFileCalls = NumFiles * Len(promises)
  /\ createCalls <= 1
  /\ pc # "start" =>
       /\ searchPromise = 1
       /\ startupPromise = 1
       /\ promises[1].state = "fulfilled" => createCalls = 1
  /\ \A r \in Reqs :
       reqs[r].getSearchCalls > 0 =>
         /\ reqs[r].getSearchCalls = 1
         /\ reqs[r].awaits = startupPromise
         /\ reqs[r].phase = "done" =>
              LET p == promises[reqs[r].awaits]
              IN /\ (p.state = "rejected") <=> (reqs[r].thrown = "BuildError")
                 /\ (p.state = "fulfilled" /\ p.value = "null")
                      <=> (reqs[r].response = TextResponse(CouldNotStart))
                 /\ (p.state = "fulfilled" /\ p.value = "Index")
                      <=> (reqs[r].searchCalls = 1)

\* Two requests and the startup call have all received the one Index.
C1_Witness ==
  /\ readFileCalls = NumFiles
  /\ createCalls = 1
  /\ \A r \in Reqs : reqs[r].phase = "done" /\ reqs[r].response.kind = "json"

\* C2: when the build fails, every request that passed validation receives
\* the unavailable text and index.search is not invoked for it.
C2_FailedBuildAnsweredUnavailable ==
  \A r \in Reqs :
    (reqs[r].phase = "done" /\ reqs[r].getSearchCalls > 0 /\ Lifecycle = "Failed") =>
      /\ reqs[r].response = TextResponse(CouldNotStart)
      /\ reqs[r].searchCalls = 0

QueryAccepted(req) ==
  /\ req.query.type = "string"
  /\ req.query.length >= 1
  /\ req.query.length <= MaxQueryLen
IndexesNumeric(req) == isNumeric(req.minIndexParam) /\ isNumeric(req.maxIndexParam)

\* C4: getSearch and index.search are invoked only for requests whose query
\* is a non-empty string of at most 500 characters and whose minIndex and
\* maxIndex are both numeric; every other request is answered with the
\* matching error text and makes no call into the engine.
C4_ValidatedBeforeEngine ==
  \A r \in Reqs :
    LET req == reqs[r]
    IN req.phase \in {"awaiting", "done"} =>
         /\ (req.getSearchCalls > 0 \/ req.searchCalls > 0) =>
              (QueryAccepted(req) /\ IndexesNumeric(req))
         /\ ~QueryAccepted(req) =>
              /\ req.response = TextResponse(NeedQueryParam)
              /\ req.getSearchCalls = 0 /\ req.searchCalls = 0
         /\ (QueryAccepted(req) /\ ~IndexesNumeric(req)) =>
              /\ req.response = TextResponse(MustBeNumbers)
              /\ req.getSearchCalls = 0 /\ req.searchCalls = 0

\* A query of exactly 500 characters with numeric indexes reached the engine.
C4_Witness ==
  /\ reqs[1].query.length = MaxQueryLen
  /\ reqs[1].minIndexParam = <<"0", "2">>
  /\ reqs[1].searchCalls = 1

\* C5: index.search is invoked only with non-negative minIndex and maxIndex
\* satisfying minIndex <= maxIndex.
C5_RangePrecondition ==
  \A r \in Reqs :
    reqs[r].searchCalls > 0 =>
      /\ reqs[r].minIndex >= 0
      /\ reqs[r].maxIndex >= 0
      /\ reqs[r].minIndex <= reqs[r].maxIndex

\* C6: the lifecycle moves only Unbuilt -> Building -> Ready or
\* Unbuilt -> Building -> Failed; once it is Ready or Failed no step changes
\* it, replaces the build promise, starts a build or reads a dump file.
C6_LifecycleTransitions ==
  [][ /\ Lifecycle' # Lifecycle =>
           <<Lifecycle, Lifecycle'>> \in {<<"Unbuilt", "Building">>,
                                          <<"Building", "Ready">>,
                                          <<"Building", "Failed">>}
      /\ Lifecycle \in {"Ready", "Failed"} =>
           /\ Lifecycle' = Lifecycle
           /\ searchPromise' = searchPromise
           /\ Len(promises') = Len(promises)
           /\ readFileCalls' = readFileCalls
           /\ createCalls' = createCalls ]_vars

\* After a failed build two more getSearch() calls were made, and nothing
\* was read again.
C6_Witness ==
  /\ Lifecycle = "Failed"
  /\ \A r \in Reqs : reqs[r].getSearchCalls = 1 /\ reqs[r].thrown = "BuildError"
  /\ readFileCalls = NumFiles

\* C7: no promise rejection is left unhandled, and every request that
\* reached the engine ends with results, an empty result or the unavailable
\* text.
C7_NoErrorEscapes ==
  /\ ~unhandledRejection
  /\ \A r \in Reqs :
       (reqs[r].phase = "done" /\ reqs[r].getSearchCalls > 0) =>
         \/ reqs[r].response.kind = "json"
         \/ reqs[r].response = TextResponse(CouldNotStart)

----------------------------------------------------------------------------
\* The request's window as the engine's contract has it: two non-negative
\* integers a <= b.
WindowOf(req) == <<parseInt(req.minIndexParam), parseInt(req.maxIndexParam)>>
WellFormedRequest(req) ==
  /\ QueryAccepted(req)
  /\ IndexesNumeric(req)
  /\ WindowOf(req)[1] >= 0
  /\ WindowOf(req)[1] <= WindowOf(req)[2]

Matches(docs, q) ==
  {d \in docs : \E t \in tokenize(q.words) : Contains(d, t)}

Min(x, y) == IF x <= y THEN x ELSE y
ItemCount(json) == Cardinality({i \in 1..Len(json) : json[i] = "{"})

\* C8: for every query and window [a, b), 0 <= a <= b, answered from a Ready
\* index, the result has min(b - a, totalMatches - a) items when
\* a < totalMatches and none when a >= totalMatches, it is the slice [a, b)
\* of the ranked list, and the response body is that sequence as JSON.
C8_WindowLength ==
  \A r \in Reqs :
    LET req == reqs[r]
        a == WindowOf(req)[1]
        b == WindowOf(req)[2]
        docs == create(promises[req.awaits].reads)
        total == Cardinality(Matches(docs, req.query))
        len == IF a < total THEN Min(b - a, total - a) ELSE 0
    IN (req.phase = "done" /\ WellFormedRequest(req)
        /\ promises[req.awaits].state = "fulfilled"
        /\ promises[req.awaits].value = "Index") =>
         /\ req.thrown = "none"
         /\ Len(req.results) = len
         /\ \A i \in 1..len :
              req.results[i] = Ranked(docs, tokenize(req.query.words))[a + i]
         /\ req.response.kind = "json"
         /\ req.response.json = JSONstringify(req.results)
         /\ ItemCount(req.response.json) = len

\* Window [1, 2) of three matches: one item, cut by maxIndex.
C8_Witness ==
  /\ pc # "start"
  /\ reqs[1].phase = "done"
  /\ reqs[1].minIndex = 1 /\ reqs[1].maxIndex = 2
  /\ Cardinality(Matches(create(promises[1].reads), reqs[1].query)) = 3
  /\ Len(reqs[1].results) = 1
  /\ ItemCount(reqs[1].response.json) = 1

C10_EmptyIndexAnswersEmpty ==
  (pc # "start" /\ \A i \in Files : promises[1].reads[i] = "empty") =>
     /\ promises[1].state # "rejected"
     /\ createCalls = 1 => (Lifecycle = "Ready" /\ create(promises[1].reads) = {})
     /\ \A r \in Reqs :
          (reqs[r].phase = "done" /\ WellFormedRequest(reqs[r])) =>
             /\ reqs[r].response = JsonResponse(<<"[", "]">>)
             /\ reqs[r].response # TextResponse(CouldNotStart)
             /\ reqs[r].thrown = "none"

\* A query that would match documents was answered [] from the empty index.
C10_Witness ==
  /\ pc # "start"
  /\ \A i \in Files : promises[1].reads[i] = "empty"
  /\ Lifecycle = "Ready"
  /\ reqs[1].query = QDoe
  /\ reqs[1].response = JsonResponse(<<"[", "]">>)

----------------------------------------------------------------------------
PlainHttp(req) ==
  /\ ~macros.DEV
  /\ req.conn.protocol # "https"
  /\ req.conn.forwardedProto # "https"

\* C11: outside DEV mode a request that is neither https nor forwarded as
\* https is answered with a redirect to 'https://' + host + originalUrl and
\* is not passed on, so no handler runs for it; every other request is passed
\* on by exactly one next() call and is not redirected.
C11_HttpsRedirect ==
  \A r \in Reqs :
    LET req == reqs[r]
    IN req.phase # "idle" =>
         /\ PlainHttp(req) =>
              /\ req.phase = "redirected"
              /\ req.response = RedirectResponse
              /\ req.location = <<"https://", req.conn.host, OriginalUrl>>
              /\ req.responses = 1
              /\ req.nextCalls = 0
              /\ req.getSearchCalls = 0 /\ req.searchCalls = 0 /\ req.sends = 0
         /\ ~PlainHttp(req) =>
              /\ req.nextCalls = 1
              /\ req.phase # "redirected"
              /\ req.response # RedirectResponse
              /\ req.location = <<>>

\* In production a plain-http request forwarded as http was redirected.
C11_Witness ==
  /\ macros = Production
  /\ reqs[1].conn.protocol = "http"
  /\ reqs[1].conn.forwardedProto = "http"
  /\ reqs[1].phase = "redirected"

Answered(r) == reqs[r].phase = "done" /\ reqs[r].responses = 1

\* C12: every request that passed validation and waits for the build is
\* eventually answered, with exactly one response.
C12_EventuallyAnswered ==
  \A r \in Reqs : (reqs[r].phase = "awaiting") ~> Answered(r)

\* Every request waited for the build and was answered from the Ready index.
C12_Witness ==
  /\ Lifecycle = "Ready"
  /\ \A r \in Reqs : Answered(r) /\ reqs[r].getSearchCalls = 1

\* C13: the build is started by the startup call before any request is
\* handled: whenever a handler calls getSearch() the shared promise is
\* already set, to the startup call's promise, and the call starts no build
\* and reads no file.
C13_BuildStartedAtStartup ==
  [][ \A r \in Reqs :
        /\ reqs'[r].phase # "idle" => startupPromise' # null
        /\ reqs'[r].getSearchCalls > reqs[r].getSearchCalls =>
             /\ searchPromise # null
             /\ searchPromise = startupPromise
             /\ searchPromise' = searchPromise
             /\ reqs'[r].awaits = startupPromise
             /\ Len(promises') = Len(promises)
             /\ readFileCalls' = readFileCalls ]_vars

\* A request called getSearch() while the startup build was in flight.
C13_Witness ==
  /\ Lifecycle = "Building"
  /\ reqs[1].phase = "awaiting"
  /\ reqs[1].awaits = startupPromise

IsCall == timerIds' > timerIds
IsRebuild == rebuilds' > rebuilds

ErrorTexts == {NeedQueryParam, MustBeNumbers, CouldNotStart}

\* C15: the unavailable response carries Cache-Control 'no-cache, no-store'
\* in every configuration, and no error response of /search (validation
\* failure or unavailable) carries a 'public' Cache-Control value.
C15_ErrorsNotCached ==
  \A r \in Reqs :
    LET req == reqs[r]
    IN (req.response.kind = "text" /\ req.response.text \in ErrorTexts) =>
         /\ req.response.text = CouldNotStart =>
              req.headers["Cache-Control"] = CacheNever
         /\ req.headers["Cache-Control"] \notin {CacheDay, CacheTwoMonths}

\* C16: every response with search results, a validation error, the
\* unavailable text or the https redirect carries the four security headers
\* as the first middleware set them.
C16_SecurityHeaders ==
  \A r \in Reqs :
    LET req == reqs[r]
    IN (req.responses > 0 /\ req.response.kind \in {"json", "text", "redirect"}) =>
         /\ req.headers["X-Frame-Options"] = "DENY"
         /\ req.headers["Content-Security-Policy"] = "frame-ancestors 'none'"
         /\ req.headers["X-XSS-Protection"] = "1; mode=block"
         /\ req.headers["X-Content-Type-Options"] = "nosniff"

\* The unavailable response, whose Cache-Control was overwritten, still has
\* the security headers.
C16_Witness ==
  /\ reqs[1].response = TextResponse(CouldNotStart)
  /\ reqs[1].headers["Cache-Control"] = CacheNever
  /\ reqs[1].headers["X-Content-Type-Options"] = "nosniff"

\* C17: res.send is never called twice for a request, and is called once
\* the handler has completed.
C17_SendExactlyOnce ==
  \A r \in Reqs :
    /\ reqs[r].sends <= 1
    /\ reqs[r].phase = "done" => reqs[r].sends = 1

\* C18: a step of a request leaves the build promise, the builds and the
\* built Index as they are; the build singleton is written once, by the
\* startup getSearch() call; a finished request is not changed by other
\* requests, and its results are those of its own query on the one index.
C18_QueriesReadOnly ==
  [][ /\ reqs' # reqs =>
           /\ searchPromise' = searchPromise
           /\ promises' = promises
           /\ readFileCalls' = readFileCalls
           /\ createCalls' = createCalls
      /\ searchPromise' # searchPromise => (pc = "start" /\ searchPromise = null)
      /\ \A r \in Reqs :
           /\ reqs[r].phase = "done" => reqs'[r] = reqs[r]
           /\ reqs'[r].response.kind = "json" =>
                reqs'[r].results = search(create(promises'[startupPromise'].reads),
                                          reqs'[r].query, reqs'[r].minIndex,
                                          reqs'[r].maxIndex) ]_vars

\* Two different queries were answered from the same index.
C18_Witness ==
  /\ \A r \in Reqs : reqs[r].response.kind = "json"
  /\ reqs[1].query = QDoe
  /\ reqs[2].query = QCsDoe
  /\ Len(reqs[1].results) = 2
  /\ Len(reqs[2].results) = 4

====
